---- MODULE Spec2Model ----
(***************************************************************************)
(* A model of tabconverter.py: the pitch model (note_to_semitones,         *)
(* semitones_to_note), the tab grammar parser (detect_source_tuning,       *)
(* extract_note_events), the string/fret allocator                         *)
(* (find_best_target_string, try_octave_shifts) and the merge and render   *)
(* loop of merge_tab_files.                                                *)
(*                                                                         *)
(* Text is modelled as a sequence of one-character strings, so that        *)
(* parsing and formatting are computed character by character.             *)
(***************************************************************************)
EXTENDS Integers, Sequences, FiniteSets, TLC

VARIABLES
    \* ---- pitch model ----
    note,            \* the note label handed to note_to_semitones
    semitones,       \* its result (ValueError when it raises)
    name,            \* semitones_to_note(semitones)
    resemi,          \* note_to_semitones(name)
    pstep,           \* position in the conversion chain
    \* ---- tab grammar parser ----
    lines,           \* the lines of a tab file
    tuning,          \* the source tuning the lines are read against
    sections,        \* extract_note_events(lines, tuning)
    xstep,           \* position of the parser run
    \* ---- allocator ----
    a_pitch,         \* note_pitch
    a_type,          \* part_type
    a_target,        \* target_tuning
    a_occupied,      \* occupied_strings
    a_other,         \* other_hand_frets
    a_config,        \* config
    a_result,        \* what try_octave_shifts returned
    astep,           \* position of the allocator call
    \* ---- merge_tab_files ----
    file_paths,      \* the input files: their lines
    source_tunings_list,  \* the explicit source tunings (-s), possibly fewer than files
    config,          \* the configuration dict
    all_parts,       \* [part_type, source_tuning, sections] per parsed file
    section_idx,     \* index of the section being merged
    section_events,  \* column -> list of [part_type, note_pitch, fret]
    max_col,         \* largest column of the section being merged
    cols,            \* the columns still to allocate, ascending
    col,             \* the column being allocated (NoCol between columns)
    queue,           \* the events of col still to allocate, bass pass first
    occupied_strings,\* target strings used in col
    bass_frets,      \* target string -> fret of the bass placements in col
    melody_frets,    \* target string -> fret of the melody placements in col
    target_section,  \* target string -> (column -> fret or "X")
    merged_sections, \* finished sections: [target_section, max_col]
    merged_lines,    \* the rendered lines
    output_file,     \* the content of the output file (NoFile when not written)
    rc,              \* the return code of merge_tab_files (Running before return)
    mstep,           \* position in merge_tab_files
    log              \* history: what happened to each event of col

pitchVars == <<note, semitones, name, resemi, pstep>>
parseVars == <<lines, tuning, sections, xstep>>
allocVars == <<a_pitch, a_type, a_target, a_occupied, a_other, a_config, a_result,
               astep>>
mergeVars == <<file_paths, source_tunings_list, config, all_parts, section_idx,
               section_events, max_col, cols, col, queue, occupied_strings,
               bass_frets, melody_frets, target_section, merged_sections,
               merged_lines, output_file, rc, mstep, log>>
vars == <<pitchVars, parseVars, allocVars, mergeVars>>

(***************************************************************************)
(* Bounds                                                                  *)
(***************************************************************************)
MaxOctave == 11     \* octaves of the note labels tried
MaxPitch == 40      \* pitches handed directly to semitones_to_note
MaxLines == 3       \* lines of a file handed to extract_note_events
MaxFiles == 2       \* input files of one merge

(***************************************************************************)
(* Characters and text                                                     *)
(***************************************************************************)
Digits == <<"0", "1", "2", "3", "4", "5", "6", "7", "8", "9">>

IsDigit(c) == \E i \in 1..10 : Digits[i] = c

DigitVal(c) == (CHOOSE i \in 1..10 : Digits[i] = c) - 1

IsNoteLetter(c) == c \in {"A", "B", "C", "D", "E", "F", "G"}

IsAccidental(c) == c \in {"#", "b"}

Max(a, b) == IF a >= b THEN a ELSE b

Abs(x) == IF x < 0 THEN -x ELSE x

\* int(s) for a non-empty string of digits
RECURSIVE ParseInt(_)
ParseInt(s) == IF s = <<>> THEN 0
          ELSE 10 * ParseInt(SubSeq(s, 1, Len(s) - 1)) + DigitVal(s[Len(s)])

\* str(n) for n >= 0
RECURSIVE Str(_)
Str(n) == IF n < 10 THEN <<Digits[n + 1]>>
          ELSE Str(n \div 10) \o <<Digits[(n % 10) + 1]>>

AllDigits(s) == \A i \in 1..Len(s) : IsDigit(s[i])

\* s.strip(), for the blank
RECURSIVE Strip(_)
Strip(s) == IF s = <<>> THEN s
            ELSE IF s[1] = " " THEN Strip(Tail(s))
            ELSE IF s[Len(s)] = " " THEN Strip(SubSeq(s, 1, Len(s) - 1))
            ELSE s

\* s.upper(), for the characters of a note name
Upper(s) == [i \in 1..Len(s) |->
               CASE s[i] = "a" -> "A" [] s[i] = "b" -> "B" [] s[i] = "c" -> "C"
                 [] s[i] = "d" -> "D" [] s[i] = "e" -> "E" [] s[i] = "f" -> "F"
                 [] s[i] = "g" -> "G" [] OTHER -> s[i]]

(***************************************************************************)
(* Pitch model                                                             *)
(***************************************************************************)
NOTES == << <<"C">>, <<"C", "#">>, <<"D">>, <<"D", "#">>, <<"E">>, <<"F">>,
            <<"F", "#">>, <<"G">>, <<"G", "#">>, <<"A">>, <<"A", "#">>, <<"B">> >>

InNOTES(n) == \E i \in 1..12 : NOTES[i] = n

\* NOTES.index(n), zero-based
NotesIndex(n) == (CHOOSE i \in 1..12 : NOTES[i] = n) - 1

ValueError == -1

\* length of the note-name group of ^([A-G][#b]?)(\d+)$
NameLen(s) == IF Len(s) >= 2 /\ IsAccidental(s[2]) THEN 2 ELSE 1

\* re.match(r'^([A-G][#b]?)(\d+)$', s)
NoteMatch(s) ==
    /\ Len(s) >= 2
    /\ IsNoteLetter(s[1])
    /\ Len(s) > NameLen(s)
    /\ AllDigits(SubSeq(s, NameLen(s) + 1, Len(s)))

\* the note name after the flat handling
ResolvedName(note_name) ==
    IF \E i \in 1..Len(note_name) : note_name[i] = "b"
    THEN NOTES[((NotesIndex(Upper(<<note_name[1]>>)) - 1) % 12) + 1]
    ELSE Upper(note_name)

\* NOTES.index(note_name) + (octave * 12), or the second ValueError
NamedPitch(note_name, octave) ==
    IF ~InNOTES(note_name) THEN ValueError
    ELSE NotesIndex(note_name) + (octave * 12)

\* note_to_semitones after note.strip()
StrippedNotePitch(s) ==
    IF ~NoteMatch(s) THEN ValueError
    ELSE NamedPitch(ResolvedName(SubSeq(s, 1, NameLen(s))),
                    ParseInt(SubSeq(s, NameLen(s) + 1, Len(s))))

note_to_semitones(n) == StrippedNotePitch(Strip(n))

\* a slip in semitones_to_note: the table is read one place too far
semitones_to_note_off_by_one(p) == NOTES[((p + 1) % 12) + 1] \o Str(p \div 12)

semitones_to_note(p) == NOTES[(p % 12) + 1] \o Str(p \div 12)

\* parse_tuning: the list of pitches of a list of labels
parse_tuning(t) == [i \in 1..Len(t) |-> note_to_semitones(t[i])]

(***************************************************************************)
(* Tab grammar parser                                                      *)
(***************************************************************************)
\* number of consecutive digits of s from position i on
RECURSIVE DigitRun(_, _)
DigitRun(s, i) == IF i <= Len(s) /\ IsDigit(s[i]) THEN 1 + DigitRun(s, i + 1) ELSE 0

\* length of the prefix of s matched by [A-G][#b]? (0 when there is none)
NamePrefix(s) == IF s = <<>> \/ ~IsNoteLetter(s[1]) THEN 0 ELSE NameLen(s)

\* re.compile(r'^([A-G][#b]?\d+)\|').match(s): the label with its octave, or <<>>
TuningLabel(s) ==
    LET n == NamePrefix(s)
        d == DigitRun(s, n + 1)
    IN IF n > 0 /\ d > 0 /\ Len(s) > n + d /\ s[n + d + 1] = "|"
       THEN SubSeq(s, 1, n + d) ELSE <<>>

\* re.compile(r'^([A-G][#b]?\d*)\|').match(s)
IsTabLine(s) ==
    LET n == NamePrefix(s)
        d == DigitRun(s, n + 1)
    IN n > 0 /\ Len(s) > n + d /\ s[n + d + 1] = "|"

PrefixLines == 50

RECURSIVE DetectFrom(_, _, _)
DetectFrom(tab_lines, i, found) ==
    IF i > Len(tab_lines) \/ i > PrefixLines THEN found
    ELSE LET lab == TuningLabel(Strip(tab_lines[i]))
         IN DetectFrom(tab_lines, i + 1,
                IF lab # <<>> /\ ~(\E k \in 1..Len(found) : found[k] = lab)
                THEN Append(found, lab) ELSE found)

\* the detected tuning; <<>> stands for None
detect_source_tuning(tab_lines) == DetectFrom(tab_lines, 1, <<>>)

\* the groups of consecutive tab lines (sections_raw)
RECURSIVE RawFrom(_, _, _, _)
RawFrom(ls, i, current_section_lines, sections_raw) ==
    IF i > Len(ls)
    THEN IF current_section_lines # <<>>
         THEN Append(sections_raw, current_section_lines) ELSE sections_raw
    ELSE IF IsTabLine(Strip(ls[i]))
         THEN RawFrom(ls, i + 1, Append(current_section_lines, ls[i]), sections_raw)
         ELSE IF current_section_lines # <<>>
              THEN RawFrom(ls, i + 1, <<>>, Append(sections_raw, current_section_lines))
              ELSE RawFrom(ls, i + 1, <<>>, sections_raw)

SectionsRaw(ls) == RawFrom(ls, 1, <<>>, <<>>)

\* position of the first "|" of s (0 when there is none)
FirstBar(s) == IF \E i \in 1..Len(s) : s[i] = "|"
               THEN CHOOSE i \in 1..Len(s) : s[i] = "|" /\ \A j \in 1..(i - 1) : s[j] # "|"
               ELSE 0

\* re.sub(r'\d+', '', s)
RECURSIVE StripDigits(_)
StripDigits(s) == IF s = <<>> THEN s
                  ELSE IF IsDigit(s[1]) THEN StripDigits(Tail(s))
                  ELSE <<s[1]>> \o StripDigits(Tail(s))

\* the source string a label belongs to, 1-based (0 stands for None)
StringIdx(note_label, source_tuning) ==
    LET hits == {i \in 1..Len(source_tuning) :
                    \/ note_label = source_tuning[i]
                    \/ note_label = StripDigits(source_tuning[i])}
    IN IF hits = {} THEN 0 ELSE CHOOSE i \in hits : \A j \in hits : i <= j

\* a dict is a sequence of entries in insertion order; d[key] = value
DictSet(d, c, s, f) ==
    IF \E k \in 1..Len(d) : d[k].col = c /\ d[k].string = s
    THEN [k \in 1..Len(d) |-> IF d[k].col = c /\ d[k].string = s
                              THEN [d[k] EXCEPT !.fret = f] ELSE d[k]]
    ELSE Append(d, [col |-> c, string |-> s, fret |-> f])

FretCap == 24

\* the while loop over content; i is the zero-based position as in the code
RECURSIVE ScanContent(_, _, _, _)
ScanContent(content, i, string_idx, section_events_) ==
    IF i >= Len(content) THEN section_events_
    ELSE IF IsDigit(content[i + 1])
         THEN LET n == DigitRun(content, i + 1)
                  fret == ParseInt(SubSeq(content, i + 1, i + n))
              IN ScanContent(content, i + n, string_idx,
                     IF fret <= FretCap
                     THEN DictSet(section_events_, i, string_idx, fret)
                     ELSE section_events_)
         ELSE ScanContent(content, i + 1, string_idx, section_events_)

\* the loop over the lines of one raw section
RECURSIVE ParseLines(_, _, _, _)
ParseLines(section_lines, k, source_tuning, section_events_) ==
    IF k > Len(section_lines) THEN section_events_
    ELSE LET line == section_lines[k]
             bar == FirstBar(line)
             note_label == Strip(SubSeq(line, 1, bar - 1))
             content == SubSeq(line, bar + 1, Len(line))
             string_idx == StringIdx(note_label, source_tuning)
         IN IF bar = 0 \/ string_idx = 0
            THEN ParseLines(section_lines, k + 1, source_tuning, section_events_)
            ELSE ParseLines(section_lines, k + 1, source_tuning,
                            ScanContent(content, 0, string_idx - 1, section_events_))

\* the events of one raw section
SectionEvents(section_lines, source_tuning) ==
    ParseLines(section_lines, 1, source_tuning, <<>>)

\* the loop over sections_raw: sections without events are not appended
RECURSIVE ParseSections(_, _, _, _)
ParseSections(sections_raw, k, source_tuning, sections_) ==
    IF k > Len(sections_raw) THEN sections_
    ELSE LET ev == SectionEvents(sections_raw[k], source_tuning)
         IN ParseSections(sections_raw, k + 1, source_tuning,
                          IF ev # <<>> THEN Append(sections_, ev) ELSE sections_)

extract_note_events(ls, source_tuning) ==
    ParseSections(SectionsRaw(ls), 1, source_tuning, <<>>)

(***************************************************************************)
(* String/fret allocator                                                   *)
(***************************************************************************)
\* config.get(key, default)
Get(c, key, default) == IF key \in DOMAIN c THEN c[key] ELSE default

DefaultMaxFret == 24
DefaultHandSeparation == 4
DefaultBassMaxFret == 12
DefaultMelodyMinFret == 7
RegionPenalty == 100

\* (None, None)
NoPlacement == [idx |-> -1, fret |-> -1]

FretMin(part_type, c) ==
    IF part_type = "bass" THEN 0 ELSE Get(c, "melody_min_fret", DefaultMelodyMinFret)

FretMax(part_type, c) ==
    IF part_type = "bass" THEN Get(c, "bass_max_fret", DefaultBassMaxFret)
    ELSE Get(c, "max_fret", DefaultMaxFret)

\* the string lies in the region the part prefers (its region_penalty is 0)
InPreferredRegion(part_type, tgt_idx, num_strings) ==
    LET melody_start == num_strings \div 2
        is_melody_string == tgt_idx >= melody_start
        prefer_low == (part_type = "bass")
    IN (prefer_low /\ ~is_melody_string) \/ (~prefer_low /\ is_melody_string)

\* the hand separation check of one fret against the other hand's frets
Collides(fret, other_hand_frets, hand_separation) ==
    \E other_string \in DOMAIN other_hand_frets :
        Abs(fret - other_hand_frets[other_string]) < hand_separation

\* the score of a candidate, times 20 (region_penalty + |fret - centre| * 0.1)
Score20(part_type, tgt_idx, fret, num_strings, c) ==
    (IF InPreferredRegion(part_type, tgt_idx, num_strings) THEN 0
     ELSE 20 * RegionPenalty)
    + Abs(2 * fret - (FretMin(part_type, c) + FretMax(part_type, c)))

\* a slip in the loop body: the occupied strings are not skipped
IsCandidate_ignoring_occupied(tgt_idx, fret, part_type, occupied, c, other_hand_frets) ==
    /\ ~(fret < 0 \/ fret > Get(c, "max_fret", DefaultMaxFret))
    /\ ~(fret < FretMin(part_type, c) \/ fret > FretMax(part_type, c))
    /\ ~Collides(fret, other_hand_frets, Get(c, "hand_separation", DefaultHandSeparation))

\* a slip in the loop body: the window of the role is not applied
IsCandidate_ignoring_window(tgt_idx, fret, part_type, occupied, c, other_hand_frets) ==
    /\ tgt_idx \notin occupied
    /\ ~(fret < 0 \/ fret > Get(c, "max_fret", DefaultMaxFret))
    /\ ~Collides(fret, other_hand_frets, Get(c, "hand_separation", DefaultHandSeparation))

\* the checks of the loop body for one target string
IsCandidate(tgt_idx, fret, part_type, occupied, c, other_hand_frets) ==
    /\ tgt_idx \notin occupied
    /\ ~(fret < 0 \/ fret > Get(c, "max_fret", DefaultMaxFret))
    /\ ~(fret < FretMin(part_type, c) \/ fret > FretMax(part_type, c))
    /\ ~Collides(fret, other_hand_frets, Get(c, "hand_separation", DefaultHandSeparation))

\* the target strings (zero-based) that pass every check of the loop
Candidates(note_pitch, part_type, target_semi, occupied, c, other_hand_frets) ==
    {tgt_idx \in 0..(Len(target_semi) - 1) :
        IsCandidate(tgt_idx, note_pitch - target_semi[tgt_idx + 1], part_type,
                    occupied, c, other_hand_frets)}

\* the order of candidates.sort(): by score, then by string index
SortsBefore(score_i, i, score_j, j) ==
    score_i < score_j \/ (score_i = score_j /\ i <= j)

\* a slip in the fret of the winner: measured from the first target string
BestCandidate_fret_of_first_string(cand, note_pitch, part_type, target_semi, c) ==
    IF cand = {} THEN NoPlacement
    ELSE LET best_idx ==
                 CHOOSE i \in cand : \A j \in cand :
                     SortsBefore(
                         Score20(part_type, i, note_pitch - target_semi[i + 1],
                                 Len(target_semi), c), i,
                         Score20(part_type, j, note_pitch - target_semi[j + 1],
                                 Len(target_semi), c), j)
         IN [idx |-> best_idx, fret |-> note_pitch - target_semi[1]]

\* candidates[0] after the sort, or (None, None)
BestCandidate(cand, note_pitch, part_type, target_semi, c) ==
    IF cand = {} THEN NoPlacement
    ELSE LET best_idx ==
                 CHOOSE i \in cand : \A j \in cand :
                     SortsBefore(
                         Score20(part_type, i, note_pitch - target_semi[i + 1],
                                 Len(target_semi), c), i,
                         Score20(part_type, j, note_pitch - target_semi[j + 1],
                                 Len(target_semi), c), j)
         IN [idx |-> best_idx, fret |-> note_pitch - target_semi[best_idx + 1]]

\* find_best_target_string once target_semi is parsed
BestOnStrings(note_pitch, part_type, target_semi, occupied, c, other_hand_frets) ==
    BestCandidate(Candidates(note_pitch, part_type, target_semi, occupied, c,
                             other_hand_frets),
                  note_pitch, part_type, target_semi, c)

find_best_target_string(note_pitch, part_type, target_tuning, occupied, c, other_hand_frets) ==
    BestOnStrings(note_pitch, part_type, parse_tuning(target_tuning), occupied, c,
                  other_hand_frets)

OctaveShifts == <<12, -12, 24, -24>>

\* the string of a placement lies in the region the part prefers
Accepted(r, part_type, num_strings) ==
    r.idx # -1 /\ InPreferredRegion(part_type, r.idx, num_strings)

\* the least element of a set of positions
First(S) == CHOOSE k \in S : \A j \in S : k <= j

\* a slip in try_octave_shifts: only the current octave is tried
ShiftChoice_current_octave_only(tried, part_type, num_strings) == tried[0]

\* a slip in try_octave_shifts: the current octave is accepted in any region
ShiftChoice_any_region(tried, part_type, num_strings) ==
    LET preferred == {k \in 1..Len(OctaveShifts) :
                         Accepted(tried[k], part_type, num_strings)}
        placed == {k \in 1..Len(OctaveShifts) : tried[k].idx # -1}
    IN IF tried[0].idx # -1 THEN tried[0]
       ELSE IF preferred # {} THEN tried[First(preferred)]
       ELSE IF placed # {} THEN tried[First(placed)]
       ELSE NoPlacement

\* the returns of try_octave_shifts, given the allocator's answer at each pitch
\* tried: tried[0] is the current octave, tried[k] the shift OctaveShifts[k]
ShiftChoice(tried, part_type, num_strings) ==
    LET \* the shifts at which the first loop would return
        preferred == {k \in 1..Len(OctaveShifts) :
                         Accepted(tried[k], part_type, num_strings)}
        \* the shifts at which the last-resort loop would return
        placed == {k \in 1..Len(OctaveShifts) : tried[k].idx # -1}
    IN IF Accepted(tried[0], part_type, num_strings) THEN tried[0]
       ELSE IF preferred # {} THEN tried[First(preferred)]
       ELSE IF tried[0].idx # -1 THEN tried[0]
       ELSE IF placed # {} THEN tried[First(placed)]
       ELSE NoPlacement

try_octave_shifts(note_pitch, part_type, target_tuning, occupied, c, other_hand_frets) ==
    ShiftChoice([k \in 0..Len(OctaveShifts) |->
                    find_best_target_string(
                        note_pitch + (IF k = 0 THEN 0 ELSE OctaveShifts[k]),
                        part_type, target_tuning, occupied, c, other_hand_frets)],
                part_type, Len(target_tuning))

(***************************************************************************)
(* merge_tab_files: helpers                                                *)
(***************************************************************************)
BassThreshold == 30

RECURSIVE SumSeq(_)
SumSeq(s) == IF s = <<>> THEN 0 ELSE Head(s) + SumSeq(Tail(s))

\* 'bass' if sum(source_semi) / len(source_semi) < 30 else 'melody'
PartType(source_tuning) ==
    IF SumSeq(parse_tuning(source_tuning)) < BassThreshold * Len(source_tuning)
    THEN "bass" ELSE "melody"

\* the tuning the file at zero-based position idx is read with (<<>>: none)
SourceTuning(idx, stl, detected_tuning) ==
    IF stl # <<>> /\ idx < Len(stl) THEN stl[idx + 1]
    ELSE IF detected_tuning # <<>> THEN detected_tuning
    ELSE <<>>

\* max(len(sections) for _, _, sections in all_parts)
RECURSIVE MaxSections(_)
MaxSections(parts) ==
    IF parts = <<>> THEN 0
    ELSE Max(Len(Head(parts).sections), MaxSections(Tail(parts)))

\* the events of one section of one part, in the order of section.items()
PartEvents(part, sidx) ==
    IF sidx >= Len(part.sections) THEN <<>>
    ELSE LET section == part.sections[sidx + 1]
             source_semi == parse_tuning(part.source_tuning)
         IN [k \in 1..Len(section) |->
               [col |-> section[k].col,
                part_type |-> part.part_type,
                note_pitch |-> source_semi[section[k].string + 1] + section[k].fret,
                fret |-> section[k].fret]]

\* the events of section sidx of all parts, in the order they are appended
RECURSIVE CollectEvents(_, _)
CollectEvents(parts, sidx) ==
    IF parts = <<>> THEN <<>>
    ELSE PartEvents(Head(parts), sidx) \o CollectEvents(Tail(parts), sidx)

EventCols(events) == {events[k].col : k \in 1..Len(events)}

\* section_events as the code builds it: column -> list of events
SectionEventsOf(parts, sidx) ==
    LET events == CollectEvents(parts, sidx)
    IN [c \in EventCols(events) |->
          LET atCol(e) == e.col = c IN SelectSeq(events, atCol)]

RECURSIVE SetMax(_)
SetMax(S) == IF S = {} THEN 0
             ELSE LET x == CHOOSE y \in S : TRUE IN Max(x, SetMax(S \ {x}))

\* sorted(S)
RECURSIVE Sorted(_)
Sorted(S) == IF S = {} THEN <<>>
             ELSE LET m == CHOOSE x \in S : \A y \in S : x <= y
                  IN <<m>> \o Sorted(S \ {m})

\* the order the two passes visit the events of a column in
PassOrder(events) ==
    LET isBass(e) == e.part_type = "bass"
        isMelody(e) == e.part_type = "melody"
    IN SelectSeq(events, isBass) \o SelectSeq(events, isMelody)

FretCell(f) == [mark |-> "fret", fret |-> f]
XCell == [mark |-> "X", fret |-> -1]

\* target_section[tgt_idx][col] = cell
PutCell(ts, tgt_idx, c, cell) ==
    [k \in (DOMAIN ts) \cup {<<tgt_idx, c>>} |->
        IF k = <<tgt_idx, c>> THEN cell ELSE ts[k]]

\* the first target string not in occupied, or -1 when the loop ends without one
FirstFree(num_target_strings, occupied) ==
    LET free == {t \in 0..(num_target_strings - 1) : t \notin occupied}
    IN IF free = {} THEN -1 ELSE CHOOSE t \in free : \A u \in free : t <= u

EmptyDict == [k \in {} |-> 0]

(***************************************************************************)
(* merge_tab_files: rendering                                              *)
(***************************************************************************)
\* s.ljust(width, fill)
RECURSIVE Ljust(_, _, _)
Ljust(s, width, fill) == IF Len(s) >= width THEN s ELSE Ljust(Append(s, fill), width, fill)

\* the text of a cell
CellText(cell) == IF cell.mark = "X" THEN <<"X">> ELSE Str(cell.fret)

\* the width of a cell as the first pass counts it
CellWidth(cell) == IF cell.mark = "X" THEN 1 ELSE Len(Str(cell.fret))

\* col_widths[c]
RECURSIVE WidthFrom(_, _, _, _, _)
WidthFrom(ts, c, tgt_idx, num_target_strings, max_width) ==
    IF tgt_idx >= num_target_strings THEN max_width
    ELSE WidthFrom(ts, c, tgt_idx + 1, num_target_strings,
                   IF <<tgt_idx, c>> \in DOMAIN ts
                   THEN Max(max_width, CellWidth(ts[<<tgt_idx, c>>]))
                   ELSE max_width)

\* a slip in the first pass: every column is one character wide
ColWidth_single(ts, c, num_target_strings) == 1

ColWidth(ts, c, num_target_strings) == WidthFrom(ts, c, 0, num_target_strings, 1)

\* ''.join(content) of one target string
RECURSIVE ContentFrom(_, _, _, _, _)
ContentFrom(ts, tgt_idx, c, mc, num_target_strings) ==
    IF c > mc THEN <<>>
    ELSE LET col_width == ColWidth(ts, c, num_target_strings)
         IN (IF <<tgt_idx, c>> \in DOMAIN ts
             THEN Ljust(CellText(ts[<<tgt_idx, c>>]), col_width, "-")
             ELSE Ljust(<<>>, col_width, "-"))
            \o ContentFrom(ts, tgt_idx, c + 1, mc, num_target_strings)

\* max(len(d) for d in target_displays)
RECURSIVE MaxLabelWidth(_)
MaxLabelWidth(target_tuning) ==
    IF target_tuning = <<>> THEN 0
    ELSE Max(Len(StripDigits(Head(target_tuning))), MaxLabelWidth(Tail(target_tuning)))

\* the line of one target string of one section
TabLine(ts, tgt_idx, mc, target_tuning) ==
    Ljust(StripDigits(target_tuning[tgt_idx + 1]), MaxLabelWidth(target_tuning), " ")
    \o <<"|">> \o ContentFrom(ts, tgt_idx, 0, mc, Len(target_tuning))

\* the lines of one section, highest target string first
RECURSIVE SectionLines(_, _, _, _)
SectionLines(ts, mc, target_tuning, tgt_idx) ==
    IF tgt_idx < 0 THEN <<>>
    ELSE <<TabLine(ts, tgt_idx, mc, target_tuning)>>
         \o SectionLines(ts, mc, target_tuning, tgt_idx - 1)

\* merged_lines: the sections, an empty line before all but the first
RECURSIVE RenderFrom(_, _, _)
RenderFrom(ms, k, target_tuning) ==
    IF k > Len(ms) THEN <<>>
    ELSE (IF k > 1 THEN << <<>> >> ELSE <<>>)
         \o SectionLines(ms[k].target_section, ms[k].max_col, target_tuning,
                         Len(target_tuning) - 1)
         \o RenderFrom(ms, k + 1, target_tuning)

RenderSections(ms, target_tuning) == RenderFrom(ms, 1, target_tuning)

\* '\n'.join(merged_lines) + '\n'
RECURSIVE JoinLines(_)
JoinLines(ls) ==
    IF ls = <<>> THEN <<>>
    ELSE IF Len(ls) = 1 THEN Head(ls)
    ELSE Head(ls) \o <<"\n">> \o JoinLines(Tail(ls))

FileText(ls) == JoinLines(ls) \o <<"\n">>

(***************************************************************************)
(* Inputs                                                                  *)
(***************************************************************************)
E1 == <<"E", "1">>
A1 == <<"A", "1">>
D2 == <<"D", "2">>
G2 == <<"G", "2">>
E4 == <<"E", "4">>
F5 == <<"F", "5">>

\* E1|0--
BassOpen == << <<"E", "1", "|", "0", "-", "-">> >>
\* E4|0--
MelodyOpen == << <<"E", "4", "|", "0", "-", "-">> >>
\* E1|12-
BassTwelve == << <<"E", "1", "|", "1", "2", "-">> >>
\* F5|0--
MelodyHigh == << <<"F", "5", "|", "0", "-", "-">> >>
\* E1|---
RestOnly == << <<"E", "1", "|", "-", "-", "-">> >>
\* E1|0- , an empty line, E1|--3
TwoSections == << <<"E", "1", "|", "0", "-">>, <<>>, <<"E", "1", "|", "-", "-", "3">> >>
\* tab
NoTabLines == << <<"t", "a", "b">> >>
\* B3|8- , E4|10
MelodyWide == << <<"B", "3", "|", "8", "-">>, <<"E", "4", "|", "1", "0">> >>

InputFiles == {BassOpen, MelodyOpen, BassTwelve, MelodyHigh, RestOnly, TwoSections,
               NoTabLines, MelodyWide}

TargetTunings == {<<E1, E4>>, <<E1>>, <<E1, A1, D2, G2>>}

Configs ==
    {[target_tuning |-> t] : t \in TargetTunings \cup {<<>>}}
    \cup {[target_tuning |-> t, melody_min_fret |-> 0, hand_separation |-> 2] :
             t \in TargetTunings}

SourceTuningLists == {<<>>, << <<E1>> >>}

SeqsUpTo(S, n) == UNION {[1..k -> S] : k \in 1..n}

(***************************************************************************)
(* merge_tab_files: the state machine                                      *)
(***************************************************************************)
Running == -1
NoCol == -1
NoFile == [written |-> FALSE, text |-> <<>>]

target_tuning_list == config.target_tuning
num_target_strings == Len(target_tuning_list)

InitMerge ==
    /\ file_paths \in SeqsUpTo(InputFiles, MaxFiles)
    /\ source_tunings_list \in SourceTuningLists
    /\ config \in Configs
    /\ all_parts = <<>>
    /\ section_idx = 0
    /\ section_events = EmptyDict
    /\ max_col = 0
    /\ cols = <<>>
    /\ col = NoCol
    /\ queue = <<>>
    /\ occupied_strings = {}
    /\ bass_frets = EmptyDict
    /\ melody_frets = EmptyDict
    /\ target_section = EmptyDict
    /\ merged_sections = <<>>
    /\ merged_lines = <<>>
    /\ output_file = NoFile
    /\ rc = Running
    /\ mstep = "parse"
    /\ log = <<>>

inputVars == <<file_paths, source_tunings_list, config>>
columnVars == <<col, queue, occupied_strings, bass_frets, melody_frets, log>>
sectionVars == <<section_events, max_col, cols, target_section>>
outputVars == <<merged_lines, output_file>>

\* return 1
Return1 ==
    /\ rc' = 1
    /\ mstep' = "done"

\* no target tuning in the config
NoTargetTuning ==
    /\ mstep = "parse" /\ all_parts = <<>>
    /\ target_tuning_list = <<>>
    /\ Return1
    /\ UNCHANGED <<inputVars, all_parts, section_idx, sectionVars, columnVars,
                   merged_sections, outputVars, pitchVars, parseVars, allocVars>>

\* parse_tab_file raises: the file cannot be read
ReadError ==
    /\ mstep = "parse" /\ Len(all_parts) < Len(file_paths)
    /\ target_tuning_list # <<>>
    /\ Return1
    /\ UNCHANGED <<inputVars, all_parts, section_idx, sectionVars, columnVars,
                   merged_sections, outputVars, pitchVars, parseVars, allocVars>>

\* the source tuning of the next file of the loop
NextSourceTuning ==
    SourceTuning(Len(all_parts), source_tunings_list,
                 detect_source_tuning(file_paths[Len(all_parts) + 1]))

\* neither an explicit nor a detected source tuning
NoTuningDetected ==
    /\ mstep = "parse" /\ Len(all_parts) < Len(file_paths)
    /\ target_tuning_list # <<>>
    /\ NextSourceTuning = <<>>
    /\ Return1
    /\ UNCHANGED <<inputVars, all_parts, section_idx, sectionVars, columnVars,
                   merged_sections, outputVars, pitchVars, parseVars, allocVars>>

\* all_parts.append((part_type, source_tuning, sections))
AppendPart(ls, source_tuning) ==
    /\ source_tuning # <<>>
    /\ all_parts' = Append(all_parts,
           [part_type |-> PartType(source_tuning),
            source_tuning |-> source_tuning,
            sections |-> extract_note_events(ls, source_tuning)])

\* one round of the loop over file_paths
ParseFile ==
    /\ mstep = "parse" /\ Len(all_parts) < Len(file_paths)
    /\ target_tuning_list # <<>>
    /\ AppendPart(file_paths[Len(all_parts) + 1], NextSourceTuning)
    /\ mstep' = IF Len(all_parts) + 1 = Len(file_paths) THEN "section" ELSE "parse"
    /\ UNCHANGED <<inputVars, section_idx, sectionVars, columnVars, merged_sections,
                   outputVars, rc, pitchVars, parseVars, allocVars>>

\* one round of the loop over section_idx, up to the loop over the columns
BeginSection ==
    /\ mstep = "section" /\ section_idx < MaxSections(all_parts)
    /\ section_events' = SectionEventsOf(all_parts, section_idx)
    /\ max_col' = SetMax(DOMAIN section_events')
    /\ cols' = Sorted(DOMAIN section_events')
    /\ target_section' = EmptyDict
    /\ mstep' = "column"
    /\ UNCHANGED <<inputVars, all_parts, section_idx, columnVars, merged_sections,
                   outputVars, rc, pitchVars, parseVars, allocVars>>

\* one round of the loop over the columns, up to the two passes
BeginColumn ==
    /\ mstep = "column" /\ cols # <<>>
    /\ col' = Head(cols)
    /\ cols' = Tail(cols)
    /\ queue' = PassOrder(section_events[Head(cols)])
    /\ occupied_strings' = {}
    /\ bass_frets' = EmptyDict
    /\ melody_frets' = EmptyDict
    /\ log' = <<>>
    /\ mstep' = "event"
    /\ UNCHANGED <<inputVars, all_parts, section_idx, section_events, max_col,
                   target_section, merged_sections, outputVars, rc, pitchVars,
                   parseVars, allocVars>>

\* a slip in the choice of other_hand_frets: the part's own hand
OtherHandFrets_own_hand(part_type) ==
    IF part_type = "bass" THEN bass_frets ELSE melody_frets

\* the other hand's frets for the separation check
OtherHandFrets(part_type) == IF part_type = "bass" THEN melody_frets ELSE bass_frets

\* what try_octave_shifts returns for event e
Allocation(e) ==
    try_octave_shifts(e.note_pitch, e.part_type, target_tuning_list,
                      occupied_strings, config, OtherHandFrets(e.part_type))

AfterEvent ==
    /\ queue' = Tail(queue)
    /\ mstep' = IF Tail(queue) = <<>> THEN "column" ELSE "event"
    /\ UNCHANGED <<inputVars, all_parts, section_idx, section_events, max_col, cols,
                   col, merged_sections, outputVars, rc, pitchVars, parseVars,
                   allocVars>>

LogEntry(e, tgt_idx, cell) ==
    [part_type |-> e.part_type, note_pitch |-> e.note_pitch,
     occupied |-> occupied_strings, tgt_idx |-> tgt_idx, cell |-> cell]

\* d[key] = value for a dict keyed by target string
DictPut(d, key, value) ==
    [k \in (DOMAIN d) \cup {key} |-> IF k = key THEN value ELSE d[k]]

\* the branch tgt_idx is not None, for event e and the allocator's answer r
Placed(e, r) ==
    /\ r.idx # -1
    /\ target_section' = PutCell(target_section, r.idx, col, FretCell(r.fret))
    /\ occupied_strings' = occupied_strings \cup {r.idx}
    /\ IF e.part_type = "bass"
       THEN /\ bass_frets' = DictPut(bass_frets, r.idx, r.fret)
            /\ UNCHANGED melody_frets
       ELSE /\ melody_frets' = DictPut(melody_frets, r.idx, r.fret)
            /\ UNCHANGED bass_frets
    /\ log' = Append(log, LogEntry(e, r.idx, FretCell(r.fret)))

\* the branch tgt_idx is None, for event e and the target string the loop finds
Unplaced(e, r, tgt_idx) ==
    /\ r.idx = -1
    /\ IF tgt_idx # -1
       THEN /\ target_section' = PutCell(target_section, tgt_idx, col, XCell)
            /\ occupied_strings' = occupied_strings \cup {tgt_idx}
       ELSE UNCHANGED <<target_section, occupied_strings>>
    /\ log' = Append(log, LogEntry(e, tgt_idx, XCell))
    /\ UNCHANGED <<bass_frets, melody_frets>>

\* the allocator found a placement: record the fret
PlaceNote ==
    /\ mstep = "event" /\ queue # <<>>
    /\ Placed(Head(queue), Allocation(Head(queue)))
    /\ AfterEvent

\* no placement: mark the first free target string with X
MarkUnplayable ==
    /\ mstep = "event" /\ queue # <<>>
    /\ FirstFree(num_target_strings, occupied_strings) # -1
    /\ Unplaced(Head(queue), Allocation(Head(queue)),
                FirstFree(num_target_strings, occupied_strings))
    /\ AfterEvent

\* no placement and no free target string: the marking loop ends without a write
DropEvent ==
    /\ mstep = "event" /\ queue # <<>>
    /\ FirstFree(num_target_strings, occupied_strings) = -1
    /\ Unplaced(Head(queue), Allocation(Head(queue)), -1)
    /\ AfterEvent

\* the columns of the section are done: merged_sections.append
EndSection ==
    /\ mstep = "column" /\ cols = <<>>
    /\ merged_sections' = Append(merged_sections,
                                 [target_section |-> target_section, max_col |-> max_col])
    /\ section_idx' = section_idx + 1
    /\ mstep' = "section"
    /\ UNCHANGED <<inputVars, all_parts, sectionVars, columnVars, outputVars, rc,
                   pitchVars, parseVars, allocVars>>

\* build merged_lines from merged_sections
Render ==
    /\ mstep = "section" /\ section_idx >= MaxSections(all_parts)
    /\ merged_lines' = RenderSections(merged_sections, target_tuning_list)
    /\ mstep' = "write"
    /\ UNCHANGED <<inputVars, all_parts, section_idx, sectionVars, columnVars,
                   merged_sections, output_file, rc, pitchVars, parseVars, allocVars>>

\* write the output file and return 0
WriteOutput ==
    /\ mstep = "write"
    /\ output_file' = [written |-> TRUE, text |-> FileText(merged_lines)]
    /\ rc' = 0
    /\ mstep' = "done"
    /\ UNCHANGED <<inputVars, all_parts, section_idx, sectionVars, columnVars,
                   merged_sections, merged_lines, pitchVars, parseVars, allocVars>>

\* writing the output file raises
WriteError ==
    /\ mstep = "write"
    /\ Return1
    /\ UNCHANGED <<inputVars, all_parts, section_idx, sectionVars, columnVars,
                   merged_sections, outputVars, pitchVars, parseVars, allocVars>>

IdleMerge ==
    /\ file_paths = <<>>
    /\ source_tunings_list = <<>>
    /\ config = [target_tuning |-> <<>>]
    /\ all_parts = <<>>
    /\ section_idx = 0
    /\ section_events = EmptyDict
    /\ max_col = 0
    /\ cols = <<>>
    /\ col = NoCol
    /\ queue = <<>>
    /\ occupied_strings = {}
    /\ bass_frets = EmptyDict
    /\ melody_frets = EmptyDict
    /\ target_section = EmptyDict
    /\ merged_sections = <<>>
    /\ merged_lines = <<>>
    /\ output_file = NoFile
    /\ rc = Running
    /\ mstep = "idle"
    /\ log = <<>>

(***************************************************************************)
(* Pitch model: the conversion chain label -> pitch -> label -> pitch      *)
(***************************************************************************)
Letters == {"A", "B", "C", "D", "E", "F", "G"}
Accidentals == {<<>>, <<"#">>, <<"b">>}

\* the labels letter[accidental]octave with octaves up to MaxOctave
WrittenLabels ==
    {<<l>> \o acc \o Str(o) : l \in Letters, acc \in Accidentals, o \in 0..MaxOctave}

\* labels note_to_semitones rejects, one with blanks around it, one with a leading zero
OtherLabels ==
    {<<"H", "1">>, <<"E">>, <<"e", "1">>, <<"E", "1", "x">>, <<"E", "#", "#", "1">>,
     <<>>, <<" ", "C", "b", "1", " ">>, <<"A", "0", "3">>}

NoLabel == <<"?">>

InitPitch ==
    /\ \/ /\ note \in WrittenLabels \cup OtherLabels
          /\ semitones = ValueError
          /\ pstep = "parse"
       \/ /\ note = NoLabel
          /\ semitones \in 0..MaxPitch
          /\ pstep = "format"
    /\ name = NoLabel
    /\ resemi = ValueError

IdlePitch ==
    /\ note = NoLabel
    /\ semitones = ValueError
    /\ name = NoLabel
    /\ resemi = ValueError
    /\ pstep = "idle"

\* note_to_semitones(note) returns
ParseNote ==
    /\ pstep = "parse"
    /\ note_to_semitones(note) # ValueError
    /\ semitones' = note_to_semitones(note)
    /\ pstep' = "format"
    /\ UNCHANGED <<note, name, resemi, parseVars, allocVars, mergeVars>>

\* note_to_semitones(note) raises ValueError
RejectNote ==
    /\ pstep = "parse"
    /\ note_to_semitones(note) = ValueError
    /\ pstep' = "error"
    /\ UNCHANGED <<note, semitones, name, resemi, parseVars, allocVars, mergeVars>>

\* semitones_to_note(semitones)
FormatNote ==
    /\ pstep = "format"
    /\ name' = semitones_to_note(semitones)
    /\ pstep' = "reparse"
    /\ UNCHANGED <<note, semitones, resemi, parseVars, allocVars, mergeVars>>

\* note_to_semitones(name)
ReparseNote ==
    /\ pstep = "reparse"
    /\ resemi' = note_to_semitones(name)
    /\ pstep' = "done"
    /\ UNCHANGED <<note, semitones, name, parseVars, allocVars, mergeVars>>

(***************************************************************************)
(* Tab grammar parser: detect the tuning of a file, then extract its events *)
(***************************************************************************)
\* E1|-0- , E1|--- , the empty line, A1|12 , E|5- , E1|25- , notes
LineKinds ==
    {<<"E", "1", "|", "-", "0", "-">>,
     <<"E", "1", "|", "-", "-", "-">>,
     <<>>,
     <<"A", "1", "|", "1", "2">>,
     <<"E", "|", "5", "-">>,
     <<"E", "1", "|", "2", "5", "-">>,
     <<"n", "o", "t", "e", "s">>}

InitParse ==
    /\ lines \in {<<>>} \cup SeqsUpTo(LineKinds, MaxLines)
    /\ tuning = <<>>
    /\ sections = <<>>
    /\ xstep = "detect"

IdleParse ==
    /\ lines = <<>>
    /\ tuning = <<>>
    /\ sections = <<>>
    /\ xstep = "idle"

\* detect_source_tuning finds a tuning
DetectTuning ==
    /\ xstep = "detect"
    /\ detect_source_tuning(lines) # <<>>
    /\ tuning' = detect_source_tuning(lines)
    /\ xstep' = "extract"
    /\ UNCHANGED <<lines, sections, pitchVars, allocVars, mergeVars>>

\* detect_source_tuning returns None
DetectNone ==
    /\ xstep = "detect"
    /\ detect_source_tuning(lines) = <<>>
    /\ xstep' = "notuning"
    /\ UNCHANGED <<lines, tuning, sections, pitchVars, allocVars, mergeVars>>

\* extract_note_events(lines, tuning)
ExtractNoteEvents ==
    /\ xstep = "extract"
    /\ sections' = extract_note_events(lines, tuning)
    /\ xstep' = "done"
    /\ UNCHANGED <<lines, tuning, pitchVars, allocVars, mergeVars>>

(***************************************************************************)
(* Allocator: one call of try_octave_shifts                                *)
(***************************************************************************)
MaxNotePitch == 72   \* note pitches handed to the allocator

\* other_hand_frets: nothing placed, or one or two frets of the other hand
OtherHands(num_strings) ==
    {EmptyDict, [k \in {0} |-> 2], [k \in {0} |-> 10]}
    \cup (IF num_strings >= 2 THEN {[k \in {0, 1} |-> IF k = 0 THEN 2 ELSE 10]} ELSE {})

AllocConfigs ==
    {c \in Configs : c.target_tuning # <<>>
                     /\ ("hand_separation" \in DOMAIN c => Len(c.target_tuning) = 2)}

InitAlloc ==
    /\ a_pitch \in 0..MaxNotePitch
    /\ a_type \in {"bass", "melody"}
    /\ a_config \in AllocConfigs
    /\ a_target = a_config.target_tuning
    /\ a_occupied \in SUBSET (0..(Len(a_target) - 1))
    /\ a_other \in OtherHands(Len(a_target))
    /\ a_result = NoPlacement
    /\ astep = "call"

IdleAlloc ==
    /\ a_pitch = 0
    /\ a_type = "bass"
    /\ a_config = [target_tuning |-> <<>>]
    /\ a_target = <<>>
    /\ a_occupied = {}
    /\ a_other = EmptyDict
    /\ a_result = NoPlacement
    /\ astep = "idle"

AllocCall ==
    try_octave_shifts(a_pitch, a_type, a_target, a_occupied, a_config, a_other)

Returned(r, placed) ==
    /\ (r.idx # -1) = placed
    /\ a_result' = r
    /\ astep' = IF placed THEN "placed" ELSE "failed"
    /\ UNCHANGED <<a_pitch, a_type, a_target, a_occupied, a_other, a_config,
                   pitchVars, parseVars, mergeVars>>

\* try_octave_shifts returns a placement
ShiftPlaces ==
    /\ astep = "call"
    /\ Returned(AllocCall, TRUE)

\* try_octave_shifts returns (None, None)
ShiftFails ==
    /\ astep = "call"
    /\ Returned(AllocCall, FALSE)

(***************************************************************************)
(* Specifications                                                          *)
(***************************************************************************)
Init == InitMerge /\ IdlePitch /\ IdleParse /\ IdleAlloc

Next ==
    \/ NoTargetTuning
    \/ ReadError
    \/ NoTuningDetected
    \/ ParseFile
    \/ BeginSection
    \/ BeginColumn
    \/ PlaceNote
    \/ MarkUnplayable
    \/ DropEvent
    \/ EndSection
    \/ Render
    \/ WriteOutput
    \/ WriteError

Spec == Init /\ [][Next]_vars

PitchInit == InitPitch /\ IdleParse /\ IdleAlloc /\ IdleMerge

PitchNext == ParseNote \/ RejectNote \/ FormatNote \/ ReparseNote

SpecPitch == PitchInit /\ [][PitchNext]_vars

ParseInit == InitParse /\ IdlePitch /\ IdleAlloc /\ IdleMerge

ParseNext == DetectTuning \/ DetectNone \/ ExtractNoteEvents

SpecParse == ParseInit /\ [][ParseNext]_vars

AllocInit == InitAlloc /\ IdlePitch /\ IdleParse /\ IdleMerge

AllocNext == ShiftPlaces \/ ShiftFails

SpecAlloc == AllocInit /\ [][AllocNext]_vars

(***************************************************************************)
(* Properties of the pitch model (checked under SpecPitch)                 *)
(***************************************************************************)
Cb1 == <<"C", "b", "1">>
B0 == <<"B", "0">>

\* the label once the chain has parsed it
Written == Strip(note)

\* the label is a C flat with an octave of at least 1
IsCFlat == Len(Written) >= 3 /\ SubSeq(Written, 1, 2) = <<"C", "b">>
           /\ AllDigits(SubSeq(Written, 3, Len(Written)))
           /\ ParseInt(SubSeq(Written, 3, Len(Written))) >= 1

\* C5: note_to_semitones("Cb1") equals note_to_semitones("B0"); in general the
\* pitch of a flat on C is that of the B of the octave below the written one.
C5_FlatWrapsToOctaveBelow ==
    (pstep \in {"format", "reparse", "done"} /\ IsCFlat) =>
        semitones = note_to_semitones(
            <<"B">> \o Str(ParseInt(SubSeq(Written, 3, Len(Written))) - 1))

\* the semitone of a natural letter above C
LetterSemitone(l) ==
    CASE l = "C" -> 0 [] l = "D" -> 2 [] l = "E" -> 4 [] l = "F" -> 5
      [] l = "G" -> 7 [] l = "A" -> 9 [] l = "B" -> 11

\* the pitch class a written label names
WrittenClass ==
    (LetterSemitone(Written[1])
     + (IF Written[2] = "#" THEN 1 ELSE IF Written[2] = "b" THEN 11 ELSE 0)) % 12

\* the octave number a written label carries
WrittenOctave == ParseInt(SubSeq(Written, NameLen(Written) + 1, Len(Written)))

\* the names of the twelve pitch classes, spelled with sharps
SharpNames == << <<"C">>, <<"C", "#">>, <<"D">>, <<"D", "#">>, <<"E">>, <<"F">>,
                 <<"F", "#">>, <<"G">>, <<"G", "#">>, <<"A">>, <<"A", "#">>, <<"B">> >>

\* C6: for a valid label, semitones_to_note(note_to_semitones(label)) is the
\* sharp-spelled label of the same pitch class with the label's octave number, and
\* parsing it again gives the same pitch; for a pitch p >= 0,
\* note_to_semitones(semitones_to_note(p)) = p.
C6_RoundTrip ==
    pstep = "done" =>
        /\ resemi = semitones
        /\ \A i \in 1..Len(name) : name[i] # "b"
        /\ note # NoLabel => name = SharpNames[WrittenClass + 1] \o Str(WrittenOctave)

\* a flat label has gone through the chain and came back spelled with a sharp
C6_Witness ==
    /\ pstep = "done"
    /\ note = <<"D", "b", "1", "0">>
    /\ name = <<"C", "#", "1", "0">>
    /\ resemi = 121

(***************************************************************************)
(* Properties of the parser (checked under SpecParse)                      *)
(***************************************************************************)
\* the lines that start a maximal run of consecutive tab lines
RunStarts ==
    {i \in 1..Len(lines) :
        /\ IsTabLine(Strip(lines[i]))
        /\ (i = 1 \/ ~IsTabLine(Strip(lines[i - 1])))}

\* C7: extract_note_events returns exactly one section per maximal run of
\* consecutive tab lines.
C7_OneSectionPerRun ==
    xstep = "done" => Len(sections) = Cardinality(RunStarts)

(***************************************************************************)
(* Properties of the merge (checked under Spec)                            *)
(***************************************************************************)
\* the two single-string parts of the example merged onto [E1, E4], default config
C1_Scenario ==
    /\ file_paths = <<BassOpen, MelodyOpen>>
    /\ config = [target_tuning |-> <<E1, E4>>]

\* the one merged section of the example is complete
C1_Merged == C1_Scenario /\ Len(merged_sections) = 1

\* the cell of a finished section at a target string and column
CellAt(k, tgt_idx, c) == merged_sections[k].target_section[<<tgt_idx, c>>]

\* C1 as stated: the bass note lands on target string 0 at fret 0 and the melody
\* note on target string 1 at fret 0.
C1_BothAtFretZero ==
    C1_Merged =>
        /\ DOMAIN merged_sections[1].target_section = {<<0, 0>>, <<1, 0>>}
        /\ CellAt(1, 0, 0) = FretCell(0)
        /\ CellAt(1, 1, 0) = FretCell(0)

\* C1 amended: the bass note lands on target string 0 at fret 0 and the melody
\* note on target string 1 at fret 12, one octave up.
C1_MelodyOneOctaveUp ==
    C1_Merged =>
        /\ DOMAIN merged_sections[1].target_section = {<<0, 0>>, <<1, 0>>}
        /\ CellAt(1, 0, 0) = FretCell(0)
        /\ CellAt(1, 1, 0) = FretCell(12)

\* the example has been merged and written
C1_Witness == C1_Merged /\ mstep = "done" /\ rc = 0

\* the entries of the log that wrote a cell
Writes == {i \in 1..Len(log) : log[i].tgt_idx # -1}

\* C2: in a column every target string holds at most one placement, sentinels
\* included: no placement is written to a string in the column's occupied set.
C2_OccupancyExclusive ==
    /\ \A i \in Writes : log[i].tgt_idx \notin log[i].occupied
    /\ \A i, j \in Writes : i # j => log[i].tgt_idx # log[j].tgt_idx
    /\ \A i \in 1..Len(log) : log[i].occupied = {log[j].tgt_idx : j \in {w \in Writes : w < i}}
    /\ Len(log) > 0 => occupied_strings = {log[i].tgt_idx : i \in Writes}

\* a column took a fret and then a sentinel, on another string
C2_Witness ==
    \E i, j \in Writes :
        /\ i < j
        /\ log[i].cell.mark = "fret"
        /\ log[j].cell = XCell
        /\ log[j].occupied = {log[i].tgt_idx}
        /\ target_section[<<log[j].tgt_idx, col>>] = XCell

\* C3: a bass fret and a melody fret accepted in the same column are at least
\* hand_separation apart.
C3_HandSeparation ==
    \A i, j \in Writes :
        (/\ log[i].part_type = "bass" /\ log[j].part_type = "melody"
         /\ log[i].cell.mark = "fret" /\ log[j].cell.mark = "fret")
        => Abs(log[i].cell.fret - log[j].cell.fret)
               >= Get(config, "hand_separation", DefaultHandSeparation)

\* a melody fret was accepted next to a bass fret, and it is not the placement
\* the melody note would have had with no bass fret to keep away from
C3_Witness ==
    \E i, j \in Writes :
        /\ log[i].part_type = "bass" /\ log[j].part_type = "melody"
        /\ log[i].cell.mark = "fret" /\ log[j].cell.mark = "fret"
        /\ try_octave_shifts(log[j].note_pitch, "melody", target_tuning_list,
                             log[j].occupied, config, EmptyDict)
           # [idx |-> log[j].tgt_idx, fret |-> log[j].cell.fret]

\* C4: every event of a column ends up as exactly one cell of the section, a
\* fret or the sentinel.
C4_NoEventLost ==
    /\ \A i \in 1..Len(log) :
          /\ log[i].tgt_idx # -1
          /\ <<log[i].tgt_idx, col>> \in DOMAIN target_section
    /\ Len(log) > 0 =>
          Cardinality({k \in DOMAIN target_section : k[2] = col}) = Len(log)

\* C8: when no part yields a section the merge fails and writes no file.
C8_NoSectionsIsFatal ==
    (/\ mstep = "done"
     /\ Len(all_parts) = Len(file_paths)
     /\ MaxSections(all_parts) = 0)
    => (rc = 1 /\ ~output_file.written)

\* merged_lines holds the rendering of merged_sections
Rendered == mstep = "write" \/ (mstep = "done" /\ output_file.written)

\* the printed width of a cell
PrintedWidth(cell) ==
    IF cell.mark = "X" THEN 1
    ELSE IF cell.fret < 10 THEN 1 ELSE IF cell.fret < 100 THEN 2 ELSE 3

\* the printed text of a cell
PrintedText(cell) == IF cell.mark = "X" THEN <<"X">> ELSE Str(cell.fret)

\* the width of a column: the widest cell in it, at least 1
WidthOf(ts, c) ==
    SetMax({1} \cup {PrintedWidth(ts[k]) : k \in {d \in DOMAIN ts : d[2] = c}})

\* the offset of a column in a body: the widths of the columns before it
RECURSIVE OffsetOf(_, _)
OffsetOf(ts, c) == IF c = 0 THEN 0 ELSE OffsetOf(ts, c - 1) + WidthOf(ts, c - 1)

\* the rendered line of target string tgt_idx in section k
LineOf(k, tgt_idx) ==
    merged_lines[(k - 1) * (num_target_strings + 1) + (num_target_strings - tgt_idx)]

\* its body: what follows the label and the bar
BodyOf(k, tgt_idx) ==
    SubSeq(LineOf(k, tgt_idx), MaxLabelWidth(target_tuning_list) + 2,
           Len(LineOf(k, tgt_idx)))

\* position pos of the body of a string lies in the text of one of its cells
InCell(ts, mc, tgt_idx, pos, marks) ==
    \E c \in 0..mc :
        /\ <<tgt_idx, c>> \in DOMAIN ts
        /\ ts[<<tgt_idx, c>>].mark \in marks
        /\ pos > OffsetOf(ts, c)
        /\ pos <= OffsetOf(ts, c) + PrintedWidth(ts[<<tgt_idx, c>>])

\* the bodies of a section are aligned, hold every cell of the given marks in
\* full at its column's offset, and a dash wherever filled is false
Aligned(ts, mc, k, marks, filled) ==
    \A tgt_idx \in 0..(num_target_strings - 1) :
        /\ Len(BodyOf(k, tgt_idx)) = OffsetOf(ts, mc + 1)
        /\ \A c \in 0..mc :
              (<<tgt_idx, c>> \in DOMAIN ts /\ ts[<<tgt_idx, c>>].mark \in marks) =>
                  SubSeq(BodyOf(k, tgt_idx), OffsetOf(ts, c) + 1,
                         OffsetOf(ts, c) + PrintedWidth(ts[<<tgt_idx, c>>]))
                  = PrintedText(ts[<<tgt_idx, c>>])
        /\ \A pos \in 1..Len(BodyOf(k, tgt_idx)) :
              ~InCell(ts, mc, tgt_idx, pos, filled) => BodyOf(k, tgt_idx)[pos] = "-"

\* C9 as stated: the bodies of a section have one length, the sum of the column
\* widths; every numeric fret stands in full at its column's offset, and every
\* other position is a dash.
C9_OnlyFretsAndDashes ==
    Rendered =>
        \A k \in 1..Len(merged_sections) :
            Aligned(merged_sections[k].target_section, merged_sections[k].max_col, k,
                    {"fret"}, {"fret"})

\* C9 amended: the bodies of a section have one length, the sum of the column
\* widths; every numeric fret and every sentinel stands in full at its column's
\* offset, and every other position is a dash.
C9_RenderedAlignment ==
    Rendered =>
        \A k \in 1..Len(merged_sections) :
            Aligned(merged_sections[k].target_section, merged_sections[k].max_col, k,
                    {"fret", "X"}, {"fret", "X"})

\* two sections of different widths are rendered, the first with a two-digit
\* fret and a sentinel
C9_Witness ==
    /\ Rendered
    /\ Len(merged_sections) = 2
    /\ merged_sections[1].max_col # merged_sections[2].max_col
    /\ \E k \in DOMAIN merged_sections[1].target_section :
          /\ merged_sections[1].target_section[k].mark = "fret"
          /\ merged_sections[1].target_section[k].fret >= 10
    /\ \E k \in DOMAIN merged_sections[1].target_section :
          merged_sections[1].target_section[k] = XCell
    /\ Len(merged_lines) = 2 * num_target_strings + 1

(***************************************************************************)
(* Properties of the allocator (checked under SpecAlloc)                   *)
(***************************************************************************)
\* the pitches of the fallback, in the order they are tried
C10_Pitches == <<a_pitch, a_pitch + 12, a_pitch - 12, a_pitch + 24, a_pitch - 24>>

\* the allocator's answer at the i-th pitch
C10_Answer(i) ==
    find_best_target_string(C10_Pitches[i], a_type, a_target, a_occupied, a_config,
                            a_other)

\* a target string of the role's preferred region
C10_InRegion(idx) ==
    IF a_type = "bass" THEN idx < Len(a_target) \div 2 ELSE idx >= Len(a_target) \div 2

\* the pitches whose winning string lies in the preferred region
C10_Preferred ==
    {i \in 1..5 : C10_Answer(i).idx # -1 /\ C10_InRegion(C10_Answer(i).idx)}

\* the pitches that have a placement at all
C10_Placeable == {i \in 1..5 : C10_Answer(i).idx # -1}

\* C10: try_octave_shifts returns the allocator's answer for the first pitch of
\* (p, p+12, p-12, p+24, p-24) that wins in the preferred region; if there is
\* none, for the first pitch that has a placement; if there is none, no placement.
C10_FallbackOrder ==
    astep \in {"placed", "failed"} =>
        a_result = IF C10_Preferred # {} THEN C10_Answer(First(C10_Preferred))
                   ELSE IF C10_Placeable # {} THEN C10_Answer(First(C10_Placeable))
                   ELSE NoPlacement

\* the current octave wins outside the preferred region and a later pitch of the
\* sequence wins inside it: the later one is returned
C10_Witness ==
    /\ astep = "placed"
    /\ C10_Answer(1).idx # -1
    /\ 1 \notin C10_Preferred
    /\ C10_Preferred # {}
    /\ a_result = C10_Answer(First(C10_Preferred))
    /\ a_result # C10_Answer(1)


(***************************************************************************)
(* Fret window and pitch class of the recorded placements                  *)
(***************************************************************************)
\* the open-string pitch of a target string (zero-based)
OpenPitch(tgt_idx) == parse_tuning(target_tuning_list)[tgt_idx + 1]

\* the entries of the log that recorded a numeric fret
FretWrites == {i \in Writes : log[i].cell.mark = "fret"}

\* the fret window of a role
C11_Lo(pt) == IF pt = "bass" THEN 0 ELSE Get(config, "melody_min_fret", DefaultMelodyMinFret)
C11_Hi(pt) == IF pt = "bass" THEN Get(config, "bass_max_fret", DefaultBassMaxFret)
              ELSE Get(config, "max_fret", DefaultMaxFret)

\* C11: every numeric fret recorded in a merged section is within 0..max_fret
\* and within the window of the role of the event it was placed for, octave
\* shifts and wrong-region fallback included.
C11_FretWindow ==
    /\ \A i \in FretWrites :
          /\ 0 <= log[i].cell.fret
          /\ log[i].cell.fret <= Get(config, "max_fret", DefaultMaxFret)
          /\ C11_Lo(log[i].part_type) <= log[i].cell.fret
          /\ log[i].cell.fret <= C11_Hi(log[i].part_type)
    \* every numeric cell of the column being filled is one of the log's writes
    /\ \A key \in DOMAIN target_section :
          (key[2] = col /\ target_section[key].mark = "fret" /\ mstep \in {"event", "column"})
          => \E i \in FretWrites : /\ log[i].tgt_idx = key[1]
                                   /\ log[i].cell = target_section[key]
    \* and the finished sections hold nothing else
    /\ \A k \in 1..Len(merged_sections) :
          \A key \in DOMAIN merged_sections[k].target_section :
              merged_sections[k].target_section[key].mark = "fret"
              => /\ 0 <= merged_sections[k].target_section[key].fret
                 /\ merged_sections[k].target_section[key].fret
                        <= Get(config, "max_fret", DefaultMaxFret)

\* a melody fret was recorded through an octave shift in the melody half, and
\* another through the wrong-region fallback, on a string of the bass half
C11_Witness ==
    /\ \E i \in FretWrites :
          /\ log[i].part_type = "melody"
          /\ InPreferredRegion("melody", log[i].tgt_idx, num_target_strings)
          /\ OpenPitch(log[i].tgt_idx) + log[i].cell.fret # log[i].note_pitch
    /\ \E j \in FretWrites :
          /\ log[j].part_type = "melody"
          /\ ~InPreferredRegion("melody", log[j].tgt_idx, num_target_strings)


\* the octave changes try_octave_shifts may apply
C12_Octaves == {0, 12, -12, 24, -24}

\* the change of pitch of a recorded placement: sounding pitch on the target
\* string minus the pitch of the note event
C12_Change(i) == OpenPitch(log[i].tgt_idx) + log[i].cell.fret - log[i].note_pitch

\* the note events of the section in progress, with their pitch computed from
\* the part's open-string pitch and the source fret
C12_EventPitches ==
    UNION {{note_to_semitones(all_parts[n].source_tuning[
                all_parts[n].sections[section_idx + 1][k].string + 1])
            + all_parts[n].sections[section_idx + 1][k].fret :
               k \in 1..(IF section_idx < Len(all_parts[n].sections)
                         THEN Len(all_parts[n].sections[section_idx + 1]) ELSE 0)} :
           n \in 1..Len(all_parts)}

\* C12: every numeric placement sounds the pitch of its note event moved by 0,
\* one or two octaves: open pitch of the target string + fret - event pitch is
\* one of 0, +12, -12, +24, -24.
C12_PitchClassPreserved ==
    \A i \in FretWrites :
        /\ C12_Change(i) \in C12_Octaves
        \* while the section the log belongs to is being filled
        /\ (mstep \in {"event", "column"} /\ target_section # EmptyDict)
           => log[i].note_pitch \in C12_EventPitches

\* placements were recorded two octaves down and one octave up
C12_Witness ==
    /\ mstep = "column" /\ target_section # EmptyDict
    /\ \E i \in FretWrites : C12_Change(i) = -24
    /\ \E j \in FretWrites : C12_Change(j) = 12
====
